---- MODULE Spec2Model ----
(***************************************************************************)
(* empath: the access-event store (table empath) and its three rankings    *)
(* recent / frequent / frecent, modelled from src/main.rs.                 *)
(*                                                                         *)
(* Text (repo, path and the stored time column) is a sequence of ASCII     *)
(* codes, so that the BINARY text comparisons SQLite performs (unique      *)
(* index, group by, max(time), order by) are computed, not assumed.        *)
(* A timestamp is jiff's Timestamp: whole seconds since the Unix epoch     *)
(* plus a nanosecond part.  The instants of the model lie on a grid of     *)
(* half_life_days days (plus a sub-millisecond fraction, which SQLite's    *)
(* julianday drops), so every weight 2^(-age_days/30) is a power of two    *)
(* and every frecency score is the exact integer score * 2^WScale.         *)
(*                                                                         *)
(* Specifications:                                                         *)
(*   Spec            calls of record, forget and the three queries         *)
(*   CommandSpec     main's record and forget commands over their paths    *)
(*   ConcurrentSpec  record and forget calls in flight together            *)
(*   ReplaySpec      the calls made, run again on a new store              *)
(*   StatementSpec   frecent's SQL statement, stepped row by row           *)
(***************************************************************************)
EXTENDS Integers, Sequences, FiniteSets, Bags, TLC

\* ---- bounds ----
MaxEvents == 3      \* rows the table may hold
MaxTick == 1        \* the clock and --time range over ticks 0..MaxTick
MaxInFlight == 2    \* calls of record and forget in flight together
MaxCalls == 3       \* calls the log keeps to run again

\* ---- program constants ----
half_life_days == 30

TickDays == half_life_days
WScale == 2 * MaxTick + 2
SecondsPerDay == 24 * 60 * 60

\* ---- text ----
\* BINARY collation: memcmp of the common prefix, then the shorter is less.
LexLess(s, t) ==
  LET n    == IF Len(s) < Len(t) THEN Len(s) ELSE Len(t)
      diff == { i \in 1 .. n : s[i] # t[i] }
  IN IF diff = {} THEN Len(s) < Len(t)
     ELSE LET i == CHOOSE i \in diff : \A j \in diff : i <= j
          IN s[i] < t[i]

Digit(d) == 48 + d
D2(n) == << Digit((n \div 10) % 10), Digit(n % 10) >>
D4(n) == << Digit((n \div 1000) % 10), Digit((n \div 100) % 10),
            Digit((n \div 10) % 10), Digit(n % 10) >>

RECURSIVE Pow10(_)
Pow10(n) == IF n = 0 THEN 1 ELSE 10 * Pow10(n - 1)

RECURSIVE Pow2(_)
Pow2(n) == IF n <= 0 THEN 1 ELSE 2 * Pow2(n - 1)

\* ---- jiff::Timestamp and its Display ----
Timestamp(s, n) == [second |-> s, nanosecond |-> n]

\* days since 1970-01-01 -> proleptic Gregorian date
civil_from_days(days) ==
  LET z   == days + 719468
      era == z \div 146097
      doe == z - era * 146097
      yoe == (doe - doe \div 1460 + doe \div 36524 - doe \div 146096) \div 365
      doy == doe - (365 * yoe + yoe \div 4 - yoe \div 100)
      mp  == (5 * doy + 2) \div 153
      d   == doy - (153 * mp + 2) \div 5 + 1
      m   == IF mp < 10 THEN mp + 3 ELSE mp - 9
      y   == yoe + era * 400 + (IF m <= 2 THEN 1 ELSE 0)
  IN [year |-> y, month |-> m, day |-> d]

RECURSIVE FracDigits(_, _)
\* the fractional second, nine digits with the trailing zeros trimmed
FracDigits(nanos, width) ==
  IF nanos = 0 THEN <<>>
  ELSE << Digit(nanos \div Pow10(width - 1)) >>
       \o FracDigits(nanos % Pow10(width - 1), width - 1)

\* Timestamp::to_string: RFC 3339 in UTC, "1970-01-16T00:00:00.0001Z"
to_string(ts) ==
  LET date == civil_from_days(ts.second \div SecondsPerDay)
      sod  == ts.second % SecondsPerDay
      frac == IF ts.nanosecond = 0 THEN <<>>
              ELSE <<46>> \o FracDigits(ts.nanosecond, 9)
  IN D4(date.year) \o <<45>> \o D2(date.month) \o <<45>> \o D2(date.day)
     \o <<84>> \o D2(sod \div 3600) \o <<58>> \o D2((sod \div 60) % 60)
     \o <<58>> \o D2(sod % 60) \o frac \o <<90>>

\* ---- SQLite julianday ----
Num(text, from, to) ==
  LET RECURSIVE go(_, _)
      go(i, acc) == IF i > to THEN acc
                    ELSE go(i + 1, 10 * acc + (text[i] - 48))
  IN go(from, 0)

\* julianday(time): the date part as a day number (the Julian day is
\* jdn - 0.5) and the time of day in milliseconds, rounded half up.
julianday(text) ==
  LET Y0 == Num(text, 1, 4)
      M0 == Num(text, 6, 7)
      D  == Num(text, 9, 10)
      h  == Num(text, 12, 13)
      mi == Num(text, 15, 16)
      s  == Num(text, 18, 19)
      hasFrac == Len(text) > 20 /\ text[20] = 46
      nfrac == IF hasFrac THEN Len(text) - 21 ELSE 0
      fd(i) == IF i <= nfrac THEN text[20 + i] - 48 ELSE 0
      fms == 100 * fd(1) + 10 * fd(2) + fd(3) + (IF fd(4) >= 5 THEN 1 ELSE 0)
      Y  == IF M0 <= 2 THEN Y0 - 1 ELSE Y0
      M  == IF M0 <= 2 THEN M0 + 12 ELSE M0
      A  == Y \div 100
      B  == 2 - A + A \div 4
      X1 == (36525 * (Y + 4716)) \div 100
      X2 == (306001 * (M + 1)) \div 10000
  IN [jdn |-> X1 + X2 + D + B - 1524,
      ms  |-> h * 3600000 + mi * 60000 + s * 1000 + fms]

\* julianday('now'): the wall clock, read to the millisecond
julianday_now(clock) ==
  [jdn |-> 2440588 + clock.second \div SecondsPerDay,
   ms  |-> (clock.second % SecondsPerDay) * 1000
           + clock.nanosecond \div 1000000]

\* ---- the model's universe ----
Repos == { <<47, 114>>, <<47, 115>> }                     \* "/r", "/s"
Paths == { <<47, 114, 47, 120>>, <<47, 114, 47, 120, 121>> } \* "/r/x", "/r/xy"
Ticks == 0 .. MaxTick
Instant(tick, nanos) == Timestamp(tick * TickDays * SecondsPerDay, nanos)
\* the instants of the model: every tick at its whole second, and the first
\* tick 0.0001 s later (a fraction below julianday's millisecond)
Instants == { Instant(k, 0) : k \in Ticks } \cup { Instant(0, 100000) }

\* the text of every instant the model uses and the Julian day SQLite
\* reads from each text, computed once
TimeText == [ts \in Instants |-> to_string(ts)]
JulianDay == [t \in { TimeText[ts] : ts \in Instants } |-> julianday(t)]

\* ---- state ----
\* empath: the table, a bag of rows [repo, path, time] (all text)
\* now:    the wall clock, in ticks of TickDays days
\* last:   the latest call into the store or the ranking engine, with
\*         what it returned
\* args:    the command line of the invocation of main in progress
\* pending: the store calls that have begun and not yet run their statement
\* log:     the store calls made so far, kept to run them again
\* fresh:   a second, new store that the logged calls are run against
\* stmt:    the frecent statement being stepped through its rows
VARIABLES empath, now, last, args, pending, log, fresh, stmt
vars == << empath, now, last, args, pending, log, fresh, stmt >>

\* what a call into the store or the ranking engine leaves alone
main_state == << args, pending, log, fresh, stmt >>

Row(repo, path, time) == [repo |-> repo, path |-> path, time |-> time]

Call(op, repo, path, time, hit, n, ok, result) ==
  [op |-> op, repo |-> repo, path |-> path, time |-> time, hit |-> hit,
   n |-> n, ok |-> ok, result |-> result]

\* ---- Event Store ----
\* create table if not exists empath (..., unique (repo, path, time))
sqlite_init == EmptyBag

\* a table without the unique constraint
no_unique_constraint(table, row) == FALSE

\* unique (repo, path, time): a row equal in all three columns exists
unique_violation(table, row) == BagIn(row, table)

\* insert into empath (repo, path, time) values ($1, $2, $3)
insert(table, row) ==
  IF unique_violation(table, row)
  THEN [ok |-> FALSE, n |-> 0, table |-> table]
  ELSE [ok |-> TRUE, n |-> 1, table |-> table (+) SetToBag({row})]

\* delete with a limit of one row
delete_one_row(table, repo, path) ==
  LET gone == { r \in BagToSet(table) : r.repo = repo /\ r.path = path }
  IN IF gone = {} THEN [ok |-> TRUE, n |-> 0, table |-> table]
     ELSE [ok |-> TRUE, n |-> 1,
           table |-> table (-) SetToBag({ CHOOSE r \in gone : TRUE })]

\* delete from empath where repo = $1 and path like $2 || '%'
delete_path_prefix(table, repo, path) ==
  LET hit(r) == /\ r.repo = repo
                /\ Len(r.path) >= Len(path)
                /\ SubSeq(r.path, 1, Len(path)) = path
      keep == { r \in BagToSet(table) : ~hit(r) }
      gone == { r \in BagToSet(table) : hit(r) }
  IN [ok |-> TRUE, n |-> Cardinality(gone), table |-> [r \in keep |-> table[r]]]

\* delete from empath where repo = $1 and path = $2
delete(table, repo, path) ==
  LET keep == { r \in BagToSet(table) : ~(r.repo = repo /\ r.path = path) }
      gone == { r \in BagToSet(table) : r.repo = repo /\ r.path = path }
      RECURSIVE copies(_)
      copies(S) == IF S = {} THEN 0
                   ELSE LET r == CHOOSE r \in S : TRUE
                        IN CopiesIn(r, table) + copies(S \ {r})
  IN [ok |-> TRUE, n |-> copies(gone), table |-> [r \in keep |-> table[r]]]

\* record(sqlite, repo, path, time): time is the text of Some(time) or of
\* Timestamp::now(); the insert's error is returned to the caller
record(table, repo, path, time) == insert(table, Row(repo, path, time))

\* forget that reports a path with no rows as an error
forget_strict(table, repo, path) ==
  LET res == delete(table, repo, path)
  IN [ok |-> res.n > 0, n |-> res.n, table |-> res.table]

\* forget(sqlite, repo, path)
forget(table, repo, path) == delete(table, repo, path)

\* time: Option<&Timestamp> of record
None == [second |-> -1, nanosecond |-> 0]
TimeArgs == {None} \cup Instants

\* no invocation of main in progress
NoArgs ==
  [command |-> "none", repo |-> <<>>, time |-> None, paths |-> <<>>,
   status |-> "none"]

\* no statement open
NoStatement ==
  [open |-> FALSE, repo |-> <<>>, source |-> <<>>, rows |-> <<>>,
   current_time |-> None, stepped_at |-> <<>>]

\* a new database file: an empty table and no query answered yet
NewStore == [table |-> sqlite_init, calls |-> 0, result |-> <<>>]

Init ==
  /\ empath = sqlite_init
  /\ now = 0
  /\ last = Call("init", <<>>, <<>>, <<>>, FALSE, 0, TRUE, <<>>)
  /\ args = NoArgs
  /\ pending = {}
  /\ log = <<>>
  /\ fresh = NewStore
  /\ stmt = NoStatement

\* Timestamp::now(): the clock, with any sub-millisecond part
ClockReadings == { ts \in Instants : ts.second = Instant(now, 0).second }

\* record with --time, or with the clock's reading
Record ==
  \E repo \in Repos, path \in Paths, arg \in TimeArgs :
    \E ts \in (IF arg = None THEN ClockReadings ELSE {arg}) :
      LET time == TimeText[ts]
          res  == record(empath, repo, path, time)
      IN /\ BagCardinality(res.table) <= MaxEvents
         /\ empath' = res.table
         /\ last' = Call("record", repo, path, time,
                         BagIn(Row(repo, path, time), empath),
                         res.n, res.ok, <<>>)
         /\ UNCHANGED << now, main_state >>

Forget ==
  \E repo \in Repos, path \in Paths :
    LET res == forget(empath, repo, path)
    IN /\ empath' = res.table
       /\ last' = Call("forget", repo, path, <<>>,
                       \E r \in BagToSet(empath) :
                          r.repo = repo /\ r.path = path,
                       res.n, res.ok, <<>>)
       /\ UNCHANGED << now, main_state >>

\* time passes
Tick ==
  /\ now < MaxTick
  /\ now' = now + 1
  /\ last' = Call("tick", <<>>, <<>>, <<>>, FALSE, 0, TRUE, <<>>)
  /\ UNCHANGED << empath, main_state >>

\* ---- Ranking Engine ----
\* a query without its where clause
Where_any_repo(table, repo) == table

\* where repo = $1
Where(table, repo) ==
  LET keep == { r \in BagToSet(table) : r.repo = repo }
  IN [r \in keep |-> table[r]]

\* order of the covering index on (repo, path, time) within one repo
RowLess(r1, r2) ==
  \/ LexLess(r1.path, r2.path)
  \/ r1.path = r2.path /\ LexLess(r1.time, r2.time)

RECURSIVE IndexScan(_)
\* the rows of a bag as the index scan yields them
IndexScan(bag) ==
  IF BagToSet(bag) = {} THEN <<>>
  ELSE LET r == CHOOSE r \in BagToSet(bag) :
                  \A o \in BagToSet(bag) : ~RowLess(o, r)
       IN <<r>> \o IndexScan(bag (-) SetToBag({r}))

\* select ... from empath where repo = $1, fetch_all
fetch_all(table, repo) == IndexScan(Where(table, repo))

RECURSIVE SortAsc(_)
SortAsc(S) ==
  IF S = {} THEN <<>>
  ELSE LET m == CHOOSE m \in S : \A o \in S : ~LexLess(o, m)
       IN <<m>> \o SortAsc(S \ {m})

\* no group by: one result row per event
path_of_each_row(rows) == [i \in DOMAIN rows |-> rows[i].path]

\* group by path: the groups in index order
group_by_path(rows) == SortAsc({ rows[i].path : i \in DOMAIN rows })

\* max(time) of a group, by text comparison
max_time(rows, path) ==
  LET times == { rows[i].time : i \in { j \in DOMAIN rows : rows[j].path = path } }
  IN CHOOSE t \in times : \A o \in times : ~LexLess(t, o)

\* count(*) of a group
count(rows, path) == Cardinality({ i \in DOMAIN rows : rows[i].path = path })

\* a stable sort: <<x, y>> \in Before says x ranks strictly ahead of y;
\* elements that neither rank ahead of the other keep their input order
sort_by(seq, Before) ==
  LET rank == [i \in DOMAIN seq |->
                 Cardinality({ j \in DOMAIN seq :
                     \/ << seq[j], seq[i] >> \in Before
                     \/ << seq[i], seq[j] >> \notin Before /\ j < i })]
  IN [k \in DOMAIN seq |-> seq[CHOOSE i \in DOMAIN seq : rank[i] = k - 1]]

\* select path ... group by path order by max(time) desc
recent(table, repo) ==
  LET rows   == fetch_all(table, repo)
      groups == group_by_path(rows)
      max    == [p \in { groups[i] : i \in DOMAIN groups } |-> max_time(rows, p)]
  IN sort_by(groups, { pq \in (DOMAIN max) \X (DOMAIN max) :
                        LexLess(max[pq[2]], max[pq[1]]) })

\* order by count(*), ascending
frequent_ascending(table, repo) ==
  LET rows   == fetch_all(table, repo)
      groups == group_by_path(rows)
      cnt    == [p \in { groups[i] : i \in DOMAIN groups } |-> count(rows, p)]
  IN sort_by(groups, { pq \in (DOMAIN cnt) \X (DOMAIN cnt) : cnt[pq[1]] < cnt[pq[2]] })

\* select path ... group by path order by count(*) desc
frequent(table, repo) ==
  LET rows   == fetch_all(table, repo)
      groups == group_by_path(rows)
      cnt    == [p \in { groups[i] : i \in DOMAIN groups } |-> count(rows, p)]
  IN sort_by(groups, { pq \in (DOMAIN cnt) \X (DOMAIN cnt) : cnt[pq[1]] > cnt[pq[2]] })

\* julianday('now') - julianday(time), in days; the model's instants make
\* the millisecond parts cancel (OnGrid)
age_days(clock, time) == julianday_now(clock).jdn - JulianDay[time].jdn

\* a weight that grows with age: 2^(+age_days / half_life_days)
weight_growing(age) == Pow2(WScale + age \div half_life_days)

\* a weight that halves every half_life_days / 2 days
weight_short_half_life(age) == Pow2(WScale - (2 * age) \div half_life_days)

\* 2f64.powf(-age_days / half_life_days), times 2^WScale
weight(age) == Pow2(WScale - age \div half_life_days)

RECURSIVE SumWeights(_, _, _)
SumWeights(rows, path, clock) ==
  IF rows = <<>> THEN 0
  ELSE (IF Head(rows).path = path
        THEN weight(age_days(clock, Head(rows).time)) ELSE 0)
       + SumWeights(Tail(rows), path, clock)

\* the HashMap after the loop over the rows
scores(table, repo, clock) ==
  LET rows == fetch_all(table, repo)
  IN [p \in { rows[i].path : i \in DOMAIN rows } |-> SumWeights(rows, p, clock)]

\* the iteration orders a HashMap with these keys can have
IterOrders(keys) ==
  { f \in [1 .. Cardinality(keys) -> keys] :
      \A i, j \in DOMAIN f : i # j => f[i] # f[j] }

\* frecent: items is the HashMap's iteration order; sort_by is stable
frecent(table, repo, clock, items) ==
  LET sc == scores(table, repo, clock)
  IN sort_by(items, { pq \in (DOMAIN sc) \X (DOMAIN sc) : sc[pq[1]] > sc[pq[2]] })

Recent ==
  \E repo \in Repos :
    /\ last' = Call("recent", repo, <<>>, <<>>, FALSE, 0, TRUE,
                    recent(empath, repo))
    /\ UNCHANGED << empath, now, main_state >>

Frequent ==
  \E repo \in Repos :
    /\ last' = Call("frequent", repo, <<>>, <<>>, FALSE, 0, TRUE,
                    frequent(empath, repo))
    /\ UNCHANGED << empath, now, main_state >>

\* the instant julianday('now') reads
Clock == Instant(now, 0)

Frecent ==
  \E repo \in Repos :
    \E items \in IterOrders(DOMAIN scores(empath, repo, Clock)) :
      /\ last' = Call("frecent", repo, <<>>, <<>>, FALSE, 0, TRUE,
                      frecent(empath, repo, Clock, items))
      /\ UNCHANGED << empath, now, main_state >>

Next == Record \/ Forget \/ Tick \/ Recent \/ Frequent \/ Frecent

Spec == Init /\ [][Next]_vars

\* ---- main: the record and forget commands ----
\* std::env::current_dir() of the invocation: "/r"
current_dir == << 47, 114 >>

\* the path arguments: "x", "/r/xy", "/rx"
ArgPaths == { << 120 >>, << 47, 114, 47, 120, 121 >>, << 47, 114, 120 >> }

\* paths: Vec<Utf8PathBuf>, here without a repeated argument
ArgLists ==
  UNION { { f \in [1 .. n -> ArgPaths] :
              \A i, j \in 1 .. n : f[i] = f[j] => i = j } :
          n \in 1 .. Cardinality(ArgPaths) }

\* absolute_utf8: a relative path is joined to the current directory
absolute_utf8(path) ==
  IF path[1] = 47 THEN path ELSE current_dir \o << 47 >> \o path

\* Utf8Path::components: the names between the separators
RECURSIVE components(_)
components(path) ==
  IF path = << >> THEN << >>
  ELSE IF Head(path) = 47 THEN components(Tail(path))
  ELSE LET stop == IF \E i \in DOMAIN path : path[i] = 47
                   THEN CHOOSE i \in DOMAIN path :
                          /\ path[i] = 47
                          /\ \A j \in 1 .. i - 1 : path[j] # 47
                   ELSE Len(path) + 1
       IN << SubSeq(path, 1, stop - 1) >>
          \o components(SubSeq(path, stop, Len(path)))

\* str::starts_with, on the bytes of the two paths
starts_with_str(path, base) ==
  Len(base) <= Len(path) /\ SubSeq(path, 1, Len(base)) = base

\* Utf8Path::starts_with: base's components are the first ones of path
starts_with(path, base) ==
  LET p == components(path)
      b == components(base)
  IN Len(b) <= Len(p) /\ SubSeq(p, 1, Len(b)) = b

\* a statement that sqlx returns Err for: nothing is written
storage_error(table) == [ok |-> FALSE, n |-> 0, table |-> table]

\* what became of one path argument
Done(path, time, outcome) == [path |-> path, time |-> time, outcome |-> outcome]

\* the run of a command so far: whether `?` has not returned yet, the
\* table, and what became of each argument reached
Run(table) == [ok |-> TRUE, table |-> table, done |-> << >>]

\* a loop over the paths that goes on after an error
record_path_keep_going(run, repo, arg, time, fault) ==
  LET path == absolute_utf8(arg)
  IN IF ~starts_with(path, repo)
     THEN [run EXCEPT !.done = Append(@, Done(path, time, "skipped"))]
     ELSE LET res == IF fault THEN storage_error(run.table)
                     ELSE record(run.table, repo, path, time)
          IN [ok |-> run.ok /\ res.ok, table |-> res.table,
              done |-> Append(run.done,
                         Done(path, time,
                              IF res.ok THEN "written" ELSE "failed"))]

\* one turn of `for path in &paths` of Command::Record: nothing once `?`
\* has returned; a path outside the repository is passed over
record_path(run, repo, arg, time, fault) ==
  LET path == absolute_utf8(arg)
  IN IF ~run.ok THEN run
     ELSE IF ~starts_with(path, repo)
     THEN [run EXCEPT !.done = Append(@, Done(path, time, "skipped"))]
     ELSE LET res == IF fault THEN storage_error(run.table)
                     ELSE record(run.table, repo, path, time)
          IN [ok |-> res.ok, table |-> res.table,
              done |-> Append(run.done,
                         Done(path, time,
                              IF res.ok THEN "written" ELSE "failed"))]

\* one turn of `for path in &paths` of Command::Forget
forget_path(run, repo, arg, fault) ==
  LET path == absolute_utf8(arg)
  IN IF ~run.ok THEN run
     ELSE LET res == IF fault THEN storage_error(run.table)
                     ELSE forget(run.table, repo, path)
          IN [ok |-> res.ok, table |-> res.table,
              done |-> Append(run.done,
                         Done(path, << >>,
                              IF res.ok THEN "deleted" ELSE "failed"))]

\* Command::Record { time, paths }: times[i] is the text record writes for
\* paths[i], broken the turn whose statement the storage fails (0: none)
RECURSIVE record_paths(_, _, _, _, _)
record_paths(run, repo, paths, times, broken) ==
  IF paths = << >> THEN run
  ELSE record_paths(record_path(run, repo, Head(paths), Head(times), broken = 1),
                    repo, Tail(paths), Tail(times), broken - 1)

\* Command::Forget { paths }
RECURSIVE forget_paths(_, _, _, _)
forget_paths(run, repo, paths, broken) ==
  IF paths = << >> THEN run
  ELSE forget_paths(forget_path(run, repo, Head(paths), broken = 1),
                    repo, Tail(paths), broken - 1)

\* the texts the record calls of one invocation write: that of --time for
\* every path, or the clock's reading at each call, never going back
TimeTexts(time, n) ==
  IF time # None THEN { [i \in 1 .. n |-> TimeText[time]] }
  ELSE { [i \in 1 .. n |-> TimeText[f[i]]] :
           f \in { g \in [1 .. n -> ClockReadings] :
                     \A i, j \in 1 .. n :
                       i < j => g[i].nanosecond <= g[j].nanosecond } }

\* Args::parse() and the repository in use
Invoke ==
  /\ args = NoArgs
  /\ \E command \in {"record", "forget"}, repo \in Repos,
        time \in TimeArgs, paths \in ArgLists :
       /\ command = "forget" => time = None
       /\ args' = [command |-> command, repo |-> repo, time |-> time,
                   paths |-> paths, status |-> "parsed"]
  /\ UNCHANGED << empath, now, last, pending, log, fresh, stmt >>

\* the arm Command::Record of main
RecordCommand ==
  /\ args.command = "record" /\ args.status = "parsed"
  /\ \E times \in TimeTexts(args.time, Len(args.paths)),
        broken \in 0 .. Len(args.paths) :
       LET run == record_paths(Run(empath), args.repo, args.paths, times,
                               broken)
       IN /\ empath' = run.table
          /\ last' = Call("record_command", args.repo, << >>, << >>, FALSE,
                          Len(run.done), run.ok, run.done)
  /\ args' = [args EXCEPT !.status = "ran"]
  /\ UNCHANGED << now, pending, log, fresh, stmt >>

\* the arm Command::Forget of main
ForgetCommand ==
  /\ args.command = "forget" /\ args.status = "parsed"
  /\ \E broken \in 0 .. Len(args.paths) :
       LET run == forget_paths(Run(empath), args.repo, args.paths, broken)
       IN /\ empath' = run.table
          /\ last' = Call("forget_command", args.repo, << >>, << >>, FALSE,
                          Len(run.done), run.ok, run.done)
  /\ args' = [args EXCEPT !.status = "ran"]
  /\ UNCHANGED << now, pending, log, fresh, stmt >>

\* main returns Ok(()) or the error, and the process ends
Exit ==
  /\ args.status = "ran"
  /\ args' = NoArgs
  /\ last' = Call("exit", << >>, << >>, << >>, FALSE, 0, last.ok, << >>)
  /\ UNCHANGED << empath, now, pending, log, fresh, stmt >>

CommandNext == Invoke \/ RecordCommand \/ ForgetCommand \/ Exit

CommandSpec == Init /\ [][CommandNext]_vars

\* ---- calls in flight ----
\* a call of record or forget that has begun: time is the text it writes
StoreCall(op, repo, path, time) ==
  [op |-> op, repo |-> repo, path |-> path, time |-> time]

\* the one statement of a call, run against the table
run_call(table, call) ==
  IF call.op = "record" THEN record(table, call.repo, call.path, call.time)
  ELSE forget(table, call.repo, call.path)

\* a call begins beside the calls in flight; record has its time text
\* (that of --time or of the clock) before its statement runs
Begin ==
  /\ Cardinality(pending) < MaxInFlight
  /\ \E repo \in Repos, path \in Paths, arg \in TimeArgs :
       \E ts \in (IF arg = None THEN ClockReadings ELSE {arg}) :
         \E call \in { StoreCall("record", repo, path, TimeText[ts]),
                        StoreCall("forget", repo, path, << >>) } :
           /\ call \notin pending
           /\ pending' = pending \cup {call}
  /\ UNCHANGED << empath, now, last, args, log, fresh, stmt >>

\* the statement of one call in flight runs, alone (SQLite admits one
\* writer at a time), and the call returns
Commit ==
  /\ \E call \in pending :
       LET res == run_call(empath, call)
       IN /\ BagCardinality(res.table) <= MaxEvents
          /\ empath' = res.table
          /\ pending' = pending \ {call}
          /\ last' = Call(call.op, call.repo, call.path, << >>, FALSE,
                          res.n, res.ok, << >>)
  /\ UNCHANGED << now, args, log, fresh, stmt >>

ConcurrentNext == Begin \/ Commit

ConcurrentSpec == Init /\ [][ConcurrentNext]_vars

\* ---- the calls made, run again on a new store ----
\* record with --time, or forget, on the store; the call is kept in the log
LoggedCall ==
  /\ fresh = NewStore
  /\ Len(log) < MaxCalls
  /\ \E repo \in Repos, path \in Paths, time \in Instants :
       \E call \in { StoreCall("record", repo, path, TimeText[time]),
                      StoreCall("forget", repo, path, << >>) } :
         LET res == run_call(empath, call)
         IN /\ empath' = res.table
            /\ log' = Append(log, call)
            /\ last' = Call(call.op, repo, path, call.time, FALSE,
                            res.n, res.ok, << >>)
  /\ UNCHANGED << now, args, pending, fresh, stmt >>

\* the next call of the log, on the new store
Replay ==
  /\ fresh.calls < Len(log)
  /\ fresh' = [table  |-> run_call(fresh.table, log[fresh.calls + 1]).table,
               calls  |-> fresh.calls + 1,
               result |-> << >>]
  /\ UNCHANGED << empath, now, last, args, pending, log, stmt >>

\* the same query on both stores at the same now, once the log has been
\* run through: last holds the first store's answer, fresh the new store's
AskRecent ==
  /\ fresh.calls = Len(log)
  /\ \E repo \in Repos :
       /\ last' = Call("recent", repo, << >>, << >>, FALSE, 0, TRUE,
                       recent(empath, repo))
       /\ fresh' = [fresh EXCEPT !.result = recent(fresh.table, repo)]
  /\ UNCHANGED << empath, now, args, pending, log, stmt >>

AskFrequent ==
  /\ fresh.calls = Len(log)
  /\ \E repo \in Repos :
       /\ last' = Call("frequent", repo, << >>, << >>, FALSE, 0, TRUE,
                       frequent(empath, repo))
       /\ fresh' = [fresh EXCEPT !.result = frequent(fresh.table, repo)]
  /\ UNCHANGED << empath, now, args, pending, log, stmt >>

\* each of the two processes has its own HashMap
AskFrecent ==
  /\ fresh.calls = Len(log)
  /\ \E repo \in Repos :
       \E items1 \in IterOrders(DOMAIN scores(empath, repo, Clock)),
          items2 \in IterOrders(DOMAIN scores(fresh.table, repo, Clock)) :
         /\ last' = Call("frecent", repo, << >>, << >>, FALSE, 0, TRUE,
                         frecent(empath, repo, Clock, items1))
         /\ fresh' = [fresh EXCEPT
                        !.result = frecent(fresh.table, repo, Clock, items2)]
  /\ UNCHANGED << empath, now, args, pending, log, stmt >>

ReplayNext ==
  LoggedCall \/ Replay \/ Tick \/ AskRecent \/ AskFrequent \/ AskFrecent

ReplaySpec == Init /\ [][ReplayNext]_vars

\* ---- frecent's statement, row by row ----
\* a clock read again for every row
current_time_per_row(statement, clock) == clock

\* julianday('now') in a statement: the clock at the statement's first
\* reading, kept until the statement ends
current_time(statement, clock) ==
  IF statement.current_time = None THEN clock ELSE statement.current_time

\* *scores.entry(path).or_insert(0.0) += weight, over the rows fetched
RECURSIVE add_weights(_, _)
add_weights(rows, path) ==
  IF rows = << >> THEN 0
  ELSE (IF Head(rows).path = path THEN weight(Head(rows).age_days) ELSE 0)
       + add_weights(Tail(rows), path)

\* the rest of frecent: the HashMap of the scores, sorted from `items`
sorted_items(rows, items) ==
  LET sc == [p \in { rows[i].path : i \in DOMAIN rows } |-> add_weights(rows, p)]
  IN sort_by(items, { pq \in (DOMAIN sc) \X (DOMAIN sc) : sc[pq[1]] > sc[pq[2]] })

\* sqlx::query(..).bind(repo): the statement opens on the table as it is
Prepare ==
  /\ ~stmt.open
  /\ \E repo \in Repos :
       stmt' = [open |-> TRUE, repo |-> repo,
                source |-> fetch_all(empath, repo), rows |-> << >>,
                current_time |-> None, stepped_at |-> << >>]
  /\ last' = Call("prepare", << >>, << >>, << >>, FALSE, 0, TRUE, << >>)
  /\ UNCHANGED << empath, now, args, pending, log, fresh >>

\* one row of the result: path and julianday('now') - julianday(time)
Step ==
  /\ stmt.open /\ Len(stmt.rows) < Len(stmt.source)
  /\ LET row == stmt.source[Len(stmt.rows) + 1]
         t   == current_time(stmt, Clock)
     IN stmt' = [stmt EXCEPT
                   !.rows = Append(@, [path |-> row.path,
                                       age_days |-> age_days(t, row.time)]),
                   !.current_time = t,
                   !.stepped_at = Append(@, now)]
  /\ UNCHANGED << empath, now, last, args, pending, log, fresh >>

\* fetch_all has returned: the scores are summed and sorted
Finish ==
  /\ stmt.open /\ Len(stmt.rows) = Len(stmt.source)
  /\ \E items \in IterOrders({ stmt.rows[i].path : i \in DOMAIN stmt.rows }) :
       last' = Call("frecent", stmt.repo, << >>, << >>, FALSE, 0, TRUE,
                    sorted_items(stmt.rows, items))
  /\ stmt' = NoStatement
  /\ UNCHANGED << empath, now, args, pending, log, fresh >>

\* the statement reads the table as it was when it began, so the model
\* writes between statements only
StatementNext ==
  \/ ~stmt.open /\ Record
  \/ Tick
  \/ Prepare
  \/ Step
  \/ Finish

StatementSpec == Init /\ [][StatementNext]_vars

\* ---- vocabulary of the properties ----
QueryOps == {"recent", "frequent", "frecent"}

RowsOf(table, repo, path) ==
  { r \in BagToSet(table) : r.repo = repo /\ r.path = path }

PathsOf(table, repo) == { r.path : r \in { x \in BagToSet(table) : x.repo = repo } }

\* the rows stored under one repository, with their copies
OwnRows(table, repo) ==
  [r \in { x \in BagToSet(table) : x.repo = repo } |-> table[r]]

\* stored events of (repo, path), counting copies
RECURSIVE Copies(_, _)
Copies(table, S) ==
  IF S = {} THEN 0
  ELSE LET r == CHOOSE r \in S : TRUE
       IN CopiesIn(r, table) + Copies(table, S \ {r})

EventCount(table, repo, path) == Copies(table, RowsOf(table, repo, path))

\* every sequence frecent can return, over the HashMap's iteration orders
FrecentOutcomes(table, repo, clock) ==
  { frecent(table, repo, clock, items) :
      items \in IterOrders(DOMAIN scores(table, repo, clock)) }

Rankings(table, repo, clock) ==
  { recent(table, repo), frequent(table, repo) }
    \cup FrecentOutcomes(table, repo, clock)

\* what the query `op` can return for a table
Outcomes(op, table, repo, clock) ==
  IF op = "recent" THEN { recent(table, repo) }
  ELSE IF op = "frequent" THEN { frequent(table, repo) }
  ELSE FrecentOutcomes(table, repo, clock)

Range(seq) == { seq[i] : i \in DOMAIN seq }

Precedes(seq, a, b) ==
  \E i, j \in DOMAIN seq : i < j /\ seq[i] = a /\ seq[j] = b

\* the instant a stored text was written from
InstantOf(text) == CHOOSE ts \in Instants : TimeText[ts] = text

Later(t1, t2) ==
  \/ t1.second > t2.second
  \/ t1.second = t2.second /\ t1.nanosecond > t2.nanosecond

\* the chronologically latest event of (repo, path)
LatestInstant(table, repo, path) ==
  LET ts == { InstantOf(r.time) : r \in RowsOf(table, repo, path) }
  IN CHOOSE t \in ts : \A o \in ts : ~Later(o, t)

\* the age of a stored event in days, from the instants themselves
AgeDays(clock, row) ==
  (clock.second - InstantOf(row.time).second) \div SecondsPerDay

\* 2^WScale * 2^(-days/30), for an age of whole half-lives
ExactWeight(days) ==
  IF days >= 0 THEN Pow2(WScale) \div Pow2(days \div 30)
  ELSE Pow2(WScale) * Pow2((0 - days) \div 30)

RECURSIVE SumOver(_, _, _)
SumOver(table, clock, S) ==
  IF S = {} THEN 0
  ELSE LET r == CHOOSE r \in S : TRUE
       IN CopiesIn(r, table) * ExactWeight(AgeDays(clock, r))
          + SumOver(table, clock, S \ {r})

\* the frecency score of (repo, path): the sum of its events' weights
ExactScore(table, repo, path, clock) ==
  SumOver(table, clock, RowsOf(table, repo, path))

\* the stored instants sit on the grid the exact weights need
OnGrid ==
  /\ julianday_now(Clock).ms = 0
  /\ \A r \in BagToSet(empath) :
       /\ JulianDay[r.time].ms = 0
       /\ age_days(Clock, r.time) % half_life_days = 0

\* ---- C1 ----
\* C1: a record call whose (repo, path, time) triple is already stored
\* returns without an error and leaves the table, and so the three
\* rankings, as they were.
C1_DuplicateRecordIsIgnored ==
  [][ (last'.op = "record"
       /\ BagIn(Row(last'.repo, last'.path, last'.time), empath))
      => /\ last'.ok
         /\ empath' = empath
         /\ \A r \in Repos :
              Rankings(empath', r, Clock') = Rankings(empath, r, Clock) ]_vars

\* ---- C2 ----
\* C2: a ranking of r returns only paths that have a stored event in r;
\* forget(r, p) leaves no event of (r, p), however many there were; and
\* (r, p) gets an event again only by a record(r, p, _).  So from a
\* forget(r, p) until the next record(r, p, _) no ranking of r returns p.
C2_ForgottenPathNotRanked ==
  /\ [](last.op \in QueryOps =>
          \A p \in Range(last.result) : RowsOf(empath, last.repo, p) # {})
  /\ [][ /\ last'.op = "forget"
             => RowsOf(empath', last'.repo, last'.path) = {}
         /\ \A r \in Repos, p \in Paths :
              (RowsOf(empath, r, p) = {} /\ RowsOf(empath', r, p) # {})
                => (last'.op = "record" /\ last'.repo = r /\ last'.path = p)
       ]_vars

\* a forget that removed several events of its path, while another path of
\* the repository stays stored
C2_Witness ==
  /\ last.op = "forget" /\ last.n >= 2
  /\ PathsOf(empath, last.repo) # {}

\* ---- C3 ----
\* C3: forget(r, p) with no stored event of (r, p) returns without an error
\* and leaves the table unchanged.
C3_ForgetOfAbsentPathIsNoOp ==
  [][ (last'.op = "forget" /\ RowsOf(empath, last'.repo, last'.path) = {})
      => (last'.ok /\ empath' = empath) ]_vars

\* a forget that matched nothing, in a table that holds the same path under
\* the other repository and another path under the same repository
C3_Witness ==
  /\ last.op = "forget" /\ ~last.hit /\ last.n = 0 /\ last.ok
  /\ \E r \in BagToSet(empath) : r.repo # last.repo /\ r.path = last.path
  /\ \E r \in BagToSet(empath) : r.repo = last.repo /\ r.path # last.path

\* ---- C4 ----
\* C4: a query of r2 returns only paths with an event stored under r2, and
\* returns what it would return if the table held the rows of r2 alone;
\* a record or forget under r1 leaves the rows of every other repository
\* as they were.  So no write under r1 changes a ranking of r2.
C4_RepositoryIsolation ==
  /\ [](last.op \in QueryOps =>
          /\ \A p \in Range(last.result) : RowsOf(empath, last.repo, p) # {}
          /\ last.result \in Outcomes(last.op, OwnRows(empath, last.repo),
                                       last.repo, Clock))
  /\ [][ last'.op \in {"record", "forget"} =>
           \A r2 \in Repos \ {last'.repo} :
              OwnRows(empath', r2) = OwnRows(empath, r2) ]_vars

\* a query of one repository returned a path while the other repository
\* holds events of another path only
C4_Witness ==
  /\ last.op \in QueryOps /\ last.result # <<>>
  /\ \E r1 \in Repos \ {last.repo} :
       /\ PathsOf(empath, r1) # {}
       /\ PathsOf(empath, r1) \cap PathsOf(empath, last.repo) = {}

\* ---- C5 ----
ExactlyThePaths(seq, table, repo) ==
  /\ Range(seq) = PathsOf(table, repo)
  /\ \A i, j \in DOMAIN seq : i # j => seq[i] # seq[j]

\* C5: what recent, frequent and frecent return for r is a sequence without
\* repeats whose elements are exactly the paths with a stored event in r.
C5_RankingsAreThePathsOnce ==
  last.op \in QueryOps => ExactlyThePaths(last.result, empath, last.repo)

\* a query returned two paths, one of which has several stored events
C5_Witness ==
  /\ last.op \in QueryOps /\ Len(last.result) = 2
  /\ \E p \in Paths : EventCount(empath, last.repo, p) >= 2

\* ---- C6 ----
\* C6: in what recent(r) returns, a path whose chronologically latest event
\* is later than that of another path comes before it.
C6_RecentOrdersByLatestInstant ==
  last.op = "recent" =>
    \A A, B \in PathsOf(empath, last.repo) :
      Later(LatestInstant(empath, last.repo, B),
            LatestInstant(empath, last.repo, A))
        => Precedes(last.result, B, A)

\* ---- C7 ----
\* C7: in what frequent(r) returns, a path with strictly more stored events
\* than another comes before it, whatever the events' timestamps.
C7_FrequentOrdersByCount ==
  last.op = "frequent" =>
    \A A, B \in PathsOf(empath, last.repo) :
      EventCount(empath, last.repo, A) > EventCount(empath, last.repo, B)
        => Precedes(last.result, A, B)

\* frequent returned the path with more events first although all of its
\* events are older than the other path's event
C7_Witness ==
  /\ last.op = "frequent" /\ Len(last.result) = 2
  /\ LET A == last.result[1]
         B == last.result[2]
     IN /\ EventCount(empath, last.repo, A) > EventCount(empath, last.repo, B)
        /\ Later(LatestInstant(empath, last.repo, B),
                 LatestInstant(empath, last.repo, A))

\* ---- C8 ----
\* C8: frecent(r) scores each path with the sum of 2^(-age_days/30) over its
\* stored events, and in what it returns a path with a strictly greater
\* score comes before a path with a smaller one.
C8_FrecentOrdersByScore ==
  last.op = "frecent" =>
    LET sc == scores(empath, last.repo, Clock)
    IN /\ DOMAIN sc = PathsOf(empath, last.repo)
       /\ \A A \in DOMAIN sc :
            sc[A] = ExactScore(empath, last.repo, A, Clock)
       /\ \A A, B \in PathsOf(empath, last.repo) :
            ExactScore(empath, last.repo, A, Clock)
              > ExactScore(empath, last.repo, B, Clock)
              => Precedes(last.result, A, B)

\* frecent ranked a path with two events of different ages ahead of a path
\* with a single event
C8_Witness ==
  /\ last.op = "frecent" /\ Len(last.result) = 2
  /\ LET A == last.result[1]
         B == last.result[2]
     IN /\ ExactScore(empath, last.repo, A, Clock)
             > ExactScore(empath, last.repo, B, Clock)
        /\ EventCount(empath, last.repo, A) = 2
        /\ EventCount(empath, last.repo, B) = 1
        /\ \E e1, e2 \in RowsOf(empath, last.repo, A) :
             AgeDays(Clock, e1) # AgeDays(Clock, e2)

\* ---- C9 ----
SingleEvent(table, repo, path, days) ==
  /\ EventCount(table, repo, path) = 1
  /\ \A r \in RowsOf(table, repo, path) : AgeDays(Clock, r) = days

\* C9: in a frecent query a path with one event of age 0 scores twice a path
\* with one event of age 30 days, and an event 30 days older than another
\* weighs half of it.
C9_HalfLife ==
  last.op = "frecent" =>
    LET sc == scores(empath, last.repo, Clock)
    IN /\ \A A, B \in DOMAIN sc :
            (SingleEvent(empath, last.repo, A, 0)
             /\ SingleEvent(empath, last.repo, B, 30))
              => sc[A] = 2 * sc[B]
       /\ \A e1, e2 \in BagToSet(OwnRows(empath, last.repo)) :
            AgeDays(Clock, e2) = AgeDays(Clock, e1) + 30
              => weight(age_days(Clock, e1.time))
                   = 2 * weight(age_days(Clock, e2.time))

\* a frecent query over one path with a single event of age 0 and another
\* with a single event of age 30 days
C9_Witness ==
  /\ last.op = "frecent"
  /\ \E A, B \in PathsOf(empath, last.repo) :
       /\ SingleEvent(empath, last.repo, A, 0)
       /\ SingleEvent(empath, last.repo, B, 30)
       /\ last.result = << A, B >>

\* ---- C10 ----
\* C10: a query run again right after itself, with no write and no clock
\* change in between, returns the same sequence.
C10_QueryDeterminism ==
  [][ (last.op \in QueryOps /\ last'.op = last.op /\ last'.repo = last.repo
       /\ empath' = empath /\ now' = now)
      => last'.result = last.result ]_vars

\* ---- C11 ----
\* C11: once every logged record (with its explicit time) and forget call
\* has been run again on a new, empty store, a recent, frequent or frecent
\* query returns on the new store what it returns on the first, at the
\* same now.
C11_ReplayGivesTheSameRankings ==
  (last.op \in QueryOps /\ fresh.calls = Len(log))
    => fresh.result = last.result

\* ---- C12 ----
\* C12: in every reachable state the table holds at most one row for each
\* (repo, path, time) triple.
C12_OneEventPerTriple ==
  \A r \in BagToSet(empath) : CopiesIn(r, empath) <= 1

\* a record call met its own triple in the table, which still holds it once
C12_Witness ==
  /\ last.op = "record" /\ last.hit
  /\ CopiesIn(Row(last.repo, last.path, last.time), empath) = 1

\* ---- C13 ----
\* C13: of two stored events, the one written from the earlier instant has
\* the text that compares below the other's, for whole seconds and for
\* instants with a fractional second.
C13_TextOrderIsTimeOrder ==
  \A r1, r2 \in BagToSet(empath) :
    Later(InstantOf(r2.time), InstantOf(r1.time))
      => LexLess(r1.time, r2.time)

\* ---- C14 ----
\* the invocation of main that has just run its command
Ran(command) ==
  args.command = command /\ args.status = "parsed" /\ args'.status = "ran"

\* path is root or lies below it
InsideRoot(path, root) ==
  \/ path = root
  \/ /\ Len(path) > Len(root) + 1
     /\ SubSeq(path, 1, Len(root)) = root
     /\ path[Len(root) + 1] = 47

\* C14: a record or forget invocation takes its paths in argument order;
\* it stops at the first path whose insert or delete fails and returns an
\* error, the paths after it are not written, and the writes of the paths
\* before it stay in the table.
C14_CommandStopsAtFirstFailure ==
  [][ (Ran("record") \/ Ran("forget"))
      => LET done == last'.result
             k == Len(done)
             failed(i) == done[i].outcome = "failed"
             row(i) == Row(args.repo, done[i].path, done[i].time)
         IN /\ k <= Len(args.paths)
            /\ \A i \in 1 .. k : done[i].path = absolute_utf8(args.paths[i])
            /\ \A i \in 1 .. k - 1 : ~failed(i)
            /\ k < Len(args.paths) => failed(k)
            /\ last'.ok <=> ~(\E i \in 1 .. k : failed(i))
            /\ Ran("record") =>
                 /\ \A i \in 1 .. k :
                      /\ done[i].outcome = "written" => ~BagIn(row(i), empath)
                      /\ (InsideRoot(done[i].path, args.repo)
                          /\ BagIn(row(i), empath)) => failed(i)
                 /\ \A r \in BagToSet(empath) \cup BagToSet(empath') :
                      CopiesIn(r, empath')
                        = CopiesIn(r, empath)
                          + (IF \E i \in 1 .. k :
                                  done[i].outcome = "written" /\ r = row(i)
                             THEN 1 ELSE 0)
            /\ Ran("forget") =>
                 \A r \in BagToSet(empath) \cup BagToSet(empath') :
                   CopiesIn(r, empath')
                     = IF /\ r.repo = args.repo
                          /\ \E i \in 1 .. k :
                               done[i].outcome = "deleted"
                               /\ r.path = done[i].path
                       THEN 0 ELSE CopiesIn(r, empath) ]_vars

\* a forget invocation over three paths failed at the second: the delete of
\* the first has run and left no row of it, and the rows of the third are
\* still stored
C14_Witness ==
  /\ args.command = "forget" /\ args.status = "ran"
  /\ Len(args.paths) = 3 /\ ~last.ok /\ Len(last.result) = 2
  /\ last.result[1].outcome = "deleted"
  /\ last.result[2].outcome = "failed"
  /\ RowsOf(empath, args.repo, last.result[1].path) = {}
  /\ RowsOf(empath, args.repo, absolute_utf8(args.paths[3])) # {}

\* ---- C15 ----
\* the (repo, path) pair a call writes to
Target(call) == << call.repo, call.path >>

\* the two calls, run one after the other in both orders
InBothOrders(table, c1, c2) ==
  LET a1 == run_call(table, c1)
      a2 == run_call(a1.table, c2)
      b2 == run_call(table, c2)
      b1 == run_call(b2.table, c1)
  IN [ok |-> a1.ok /\ a2.ok /\ b1.ok /\ b2.ok,
      same |-> a2.table = b1.table]

\* C15: of the calls in flight, two with different (repo, path) pairs
\* succeed in either order and leave the same table in both; and the call
\* whose statement runs succeeds and leaves every row of another
\* (repo, path) pair with the copies it had.
C15_ConcurrentCallsCommute ==
  /\ [](\A c1, c2 \in pending :
          Target(c1) # Target(c2)
            => LET both == InBothOrders(empath, c1, c2)
               IN both.ok /\ both.same)
  /\ [][ \A call \in pending \ pending' :
           /\ last'.ok
           /\ \A r \in BagToSet(empath) \cup BagToSet(empath') :
                << r.repo, r.path >> # Target(call)
                  => CopiesIn(r, empath') = CopiesIn(r, empath) ]_vars

\* ---- C16 ----
\* C16: forget(r, p) removes every row whose repo is r and whose path is
\* exactly p, and leaves every other row (another repository, another path
\* of r, a path that p is a prefix of) with the copies it had.
C16_ForgetRemovesExactlyThePath ==
  [][ last'.op = "forget"
      => \A row \in BagToSet(empath) \cup BagToSet(empath') :
           CopiesIn(row, empath')
             = IF row.repo = last'.repo /\ row.path = last'.path
               THEN 0 ELSE CopiesIn(row, empath) ]_vars

\* forget removed the rows of a path and left a row of a longer path with
\* the same prefix and a row of the same path in another repository
C16_Witness ==
  /\ last.op = "forget" /\ last.hit
  /\ RowsOf(empath, last.repo, last.path) = {}
  /\ \E r \in BagToSet(empath) :
       /\ r.repo = last.repo
       /\ Len(r.path) > Len(last.path)
       /\ SubSeq(r.path, 1, Len(last.path)) = last.path
  /\ \E r \in BagToSet(empath) : r.repo # last.repo /\ r.path = last.path

\* ---- C17 ----
\* the readings of the wall clock
ClockInstants == { Instant(k, 0) : k \in Ticks }

C18_RecordCommandKeepsToTheRepository ==
  /\ [](\A r \in BagToSet(empath) : InsideRoot(r.path, r.repo))
  /\ [][ Ran("record")
         => LET done == last'.result
                k == Len(done)
                skipped(i) == done[i].outcome = "skipped"
            IN /\ \A i \in 1 .. k :
                    skipped(i)
                      <=> ~InsideRoot(absolute_utf8(args.paths[i]), args.repo)
               /\ \A i \in 1 .. k :
                    (skipped(i) /\ i < Len(args.paths)) => k > i
               /\ (\A i \in 1 .. k : skipped(i))
                    => last'.ok /\ k = Len(args.paths) /\ empath' = empath
               /\ \A r \in BagToSet(empath') :
                    ~BagIn(r, empath)
                      => /\ r.repo = args.repo
                         /\ InsideRoot(r.path, args.repo)
                         /\ \E i \in 1 .. k :
                              r.path = absolute_utf8(args.paths[i]) ]_vars

\* a record invocation passed over a path outside the repository and then
\* wrote the row of a later path
C18_Witness ==
  /\ args.command = "record" /\ args.status = "ran" /\ last.ok
  /\ \E i, j \in DOMAIN last.result :
       /\ i < j
       /\ last.result[i].outcome = "skipped"
       /\ last.result[j].outcome = "written"
       /\ BagIn(Row(args.repo, last.result[j].path, last.result[j].time),
                empath)

\* ---- C19 ----
\* C19: in a frecent query no stored event of the repository weighs more
\* than 1 (2^WScale in the model's fixed point), whatever its timestamp.
C19_EventWeightAtMostOne ==
  last.op = "frecent" =>
    \A r \in BagToSet(OwnRows(empath, last.repo)) :
      weight(age_days(Clock, r.time)) <= Pow2(WScale)

====
